---- MODULE Spec2Model ----
(***************************************************************************)
(* The intelligence service of server.js: the search cache, the two source *)
(* adapters (news API, arXiv), the relevance score and the aggregation     *)
(* searchWebSources, run by concurrent callers on the node event loop, and *)
(* the two routes that call it, POST /api/analyze and GET /api/trending.   *)
(*                                                                         *)
(* Spec has direct callers of searchWebSources, LiveSpec the same with     *)
(* services that may hang, AnalyzeSpec and TrendingSpec the requests of    *)
(* one route each, RelevanceSpec single evaluations of calculateRelevance, *)
(* ConfiguredSpec the direct callers in a process whose environment sets   *)
(* CACHE_EXPIRY_MINUTES, ChangeSpec the direct callers while the services  *)
(* change what they answer.                                                *)
(*                                                                         *)
(* One action is one run-to-completion turn of the event loop: the         *)
(* synchronous start of a call up to its first await, or the arrival of an *)
(* upstream response together with every continuation it resumes.          *)
(***************************************************************************)
EXTENDS Integers, Sequences, FiniteSets, TLC

\* Bounds of the model.
MaxCalls == 3
MaxTicks == 2
MaxInFlight == 2

(***************************************************************************)
(* JavaScript values.  A string is a sequence of characters (one-character *)
(* strings); literal text that no operation inspects is kept in chunks.    *)
(* Null is a value that is no string: its only element is no character.    *)
(***************************************************************************)
Null == <<"<null>">>

\* undefined: what a missing argument or a missing property reads as
Undefined == <<"<undefined>">>

\* a parameter or a destructured property without its default
DefaultToArgument(argument, default) == argument

\* the default of a parameter or of a destructured property, as in
\* timeFrame = 'week': it stands in for undefined alone
DefaultTo(argument, default) == IF argument = Undefined THEN default ELSE argument

\* a test that only undefined passes
IsUndefined(v) == v = Undefined

\* !v for a string, null or undefined
Falsy(v) == v = Undefined \/ v = Null \/ v = <<>>

Min(a, b) == IF a < b THEN a ELSE b

\* String(v) as applied by the + operator: null becomes the text "null".
ToStr(v) == IF v = Null THEN <<"n", "u", "l", "l">> ELSE v

\* String.prototype.includes
Includes(s, sub) ==
    \E i \in 0..(Len(s) - Len(sub)) : SubSeq(s, i + 1, i + Len(sub)) = sub

\* String.prototype.substring(from, to), 0-based, to exclusive
Substring(s, from, to) == SubSeq(s, from + 1, Min(to, Len(s)))

\* String.prototype.trim over the blank of the model's alphabet
RECURSIVE TrimLeft(_)
TrimLeft(s) == IF s # <<>> /\ Head(s) = " " THEN TrimLeft(Tail(s)) ELSE s

RECURSIVE TrimRight(_)
TrimRight(s) ==
    IF s # <<>> /\ s[Len(s)] = " " THEN TrimRight(SubSeq(s, 1, Len(s) - 1)) ELSE s

Trim(s) == TrimRight(TrimLeft(s))

\* String.prototype.toLowerCase over the model's alphabet
LowerChar(c) == CASE c = "A" -> "a" [] c = "B" -> "b" [] c = "I" -> "i" [] OTHER -> c

ToLowerCase(s) == [i \in 1..Len(s) |-> LowerChar(s[i])]

\* String.prototype.split(' '): the empty string splits into one empty word
RECURSIVE SplitFrom(_, _, _)
SplitFrom(s, i, word) ==
    IF i > Len(s) THEN <<word>>
    ELSE IF s[i] = " " THEN <<word>> \o SplitFrom(s, i + 1, <<>>)
    ELSE SplitFrom(s, i + 1, Append(word, s[i]))

Split(s) == SplitFrom(s, 1, <<>>)

\* Date.prototype.toISOString: a fixed-width text of the instant, here the
\* sign and ten decimal digits of its milliseconds; Date.parse reads it back.
Digits == <<"0", "1", "2", "3", "4", "5", "6", "7", "8", "9">>

Abs(n) == IF n < 0 THEN 0 - n ELSE n

RECURSIVE DigitsOf(_, _)
\* the last `width` decimal digits of n
DigitsOf(n, width) ==
    IF width = 0 THEN <<>>
    ELSE Append(DigitsOf(n \div 10, width - 1), Digits[(n % 10) + 1])

toISOString(ms) ==
    <<IF ms < 0 THEN "-" ELSE "+">> \o DigitsOf(Abs(ms), 10)

DigitValue(d) == CHOOSE v \in 0..9 : Digits[v + 1] = d

RECURSIVE DigitsValue(_, _)
DigitsValue(s, i) ==
    IF i < 2 THEN 0 ELSE DigitValue(s[i]) + 10 * DigitsValue(s, i - 1)

DateParse(iso) ==
    IF iso[1] = "-" THEN 0 - DigitsValue(iso, Len(iso)) ELSE DigitsValue(iso, Len(iso))

(***************************************************************************)
(* new RegExp(word, 'g') over the alphabet of the model: a letter, digit,  *)
(* '_' or ':' matches itself, '.' matches any character, '+' repeats the   *)
(* atom before it (greedy) and is a SyntaxError with no atom before it.    *)
(***************************************************************************)
Quantifier == {"+"}

\* the outcome of a pattern the RegExp constructor rejects
SyntaxError == <<[c |-> "SyntaxError", plus |-> FALSE]>>

RECURSIVE RegExpAtoms(_, _, _)
\* the atoms of the pattern, or SyntaxError
RegExpAtoms(word, i, atoms) ==
    IF i > Len(word) THEN atoms
    ELSE IF word[i] \in Quantifier
         THEN IF atoms = <<>> \/ atoms[Len(atoms)].plus
              THEN SyntaxError
              ELSE RegExpAtoms(word, i + 1,
                     [atoms EXCEPT ![Len(atoms)].plus = TRUE])
         ELSE RegExpAtoms(word, i + 1, Append(atoms, [c |-> word[i], plus |-> FALSE]))

RegExpThrows(word) == RegExpAtoms(word, 1, <<>>) = SyntaxError

AtomMatches(atom, ch) == atom.c = "." \/ atom.c = ch

RECURSIVE Run(_, _, _)
\* how many characters from position pos (1-based) on match the atom
Run(atom, text, pos) ==
    IF pos <= Len(text) /\ AtomMatches(atom, text[pos])
    THEN 1 + Run(atom, text, pos + 1) ELSE 0

RECURSIVE MatchAt(_, _, _, _)
RECURSIVE MatchPlus(_, _, _, _, _)
\* the position after the match of atoms[i..] at pos, or 0 when none
MatchAt(atoms, i, text, pos) ==
    IF i > Len(atoms) THEN pos
    ELSE IF atoms[i].plus
         THEN MatchPlus(atoms, i, text, pos, Run(atoms[i], text, pos))
         ELSE IF pos <= Len(text) /\ AtomMatches(atoms[i], text[pos])
              THEN MatchAt(atoms, i + 1, text, pos + 1)
              ELSE 0

\* greedy repetition: the longest run first, backing off to one
MatchPlus(atoms, i, text, pos, n) ==
    IF n < 1 THEN 0
    ELSE LET r == MatchAt(atoms, i + 1, text, pos + n)
         IN  IF r # 0 THEN r ELSE MatchPlus(atoms, i, text, pos, n - 1)

RECURSIVE CountFrom(_, _, _)
\* (text.match(re) || []).length with the g flag: leftmost matches, one
\* after the other; an empty match advances by one character
CountFrom(atoms, text, pos) ==
    IF pos > Len(text) + 1 THEN 0
    ELSE LET e == MatchAt(atoms, 1, text, pos)
         IN  IF e = 0 THEN CountFrom(atoms, text, pos + 1)
             ELSE 1 + CountFrom(atoms, text, IF e > pos THEN e ELSE pos + 1)

CountMatches(word, text) == CountFrom(RegExpAtoms(word, 1, <<>>), text, 1)

\* A score is the fraction num/den; Math.min(score / n, 1) clamps it.
Fraction(n, d) == [num |-> n, den |-> d]

RECURSIVE SumMatches(_, _, _)
SumMatches(words, text, i) ==
    IF i > Len(words) THEN 0
    ELSE CountMatches(words[i], text) + SumMatches(words, text, i + 1)

calculateRelevanceThrows(text, query) ==
    \E i \in 1..Len(Split(ToLowerCase(query))) :
        RegExpThrows(Split(ToLowerCase(query))[i])

\* the quotient turned around: Math.min(queryWords.length / score, 1)
calculateRelevanceSwapped(text, query) ==
    LET queryWords == Split(ToLowerCase(query))
        textLower  == ToLowerCase(text)
        score      == SumMatches(queryWords, textLower, 1)
    IN  IF score <= Len(queryWords) THEN Fraction(1, 1)
        ELSE Fraction(Len(queryWords), score)

calculateRelevance(text, query) ==
    LET queryWords == Split(ToLowerCase(query))
        textLower  == ToLowerCase(text)
        score      == SumMatches(queryWords, textLower, 1)
    IN  IF score >= Len(queryWords) THEN Fraction(1, 1)
        ELSE Fraction(score, Len(queryWords))

(***************************************************************************)
(* Inputs: the (query, timeFrame) pairs callers pass, the responses the    *)
(* two upstream services give, and the environment of the process.         *)
(***************************************************************************)
week == <<"w", "e", "e", "k">>

\* (query, timeFrame) as the callers pass them: both are free text on
\* POST /api/analyze.  The first two pairs differ in both parts; the last
\* query is no valid regular expression and comes without a timeFrame.
Args == { <<<<"a">>, <<"b", "_">> \o week>>,
          <<<<"a", "_", "b">>, week>>,
          <<<<"+">>, Undefined>> }

SomeInstant == toISOString(0 - 60000)

\* Articles of a news API response body
ArtLive == [title |-> <<"A", "a">>, description |-> <<"b">>,
            url |-> <<"n", ".", "i", "o", "/", "1">>,
            publishedAt |-> SomeInstant, source |-> <<"N">>]

ArtNullUrl == [ArtLive EXCEPT !.url = Null]

ArtNullText == [ArtLive EXCEPT !.title = Null, !.description = Null]

\* source: null, so that article.source.name raises
ArtNoSource == [ArtLive EXCEPT !.source = Null]

NewsResponse(kind, articles) == [kind |-> kind, articles |-> articles]

\* Entries of an arXiv response body, as the text of their elements
Entry1 == [title |-> <<" ", "a", "B">>, summary |-> <<"a", " ">>,
           published |-> <<"2", "0", "2", "4">>, id |-> <<"x", ":", "1">>]

ArxivResponse(kind, entries) == [kind |-> kind, entries |-> entries]

\* A service that is down answers each request in one of these ways
\* ("network": no response, "status": a non-2xx response, "malformed": a
\* body without an articles array, "unparsable": a body cheerio.load
\* rejects); a service that is up answers "ok" with its records.
NewsDown == NewsResponse("down", <<>>)

ArxivDown == ArxivResponse("down", <<>>)

\* A service that hangs accepts the request and never answers it: axios
\* is called without a timeout, so the request stays open.
NewsHangs == NewsResponse("hang", <<>>)

ArxivHangs == ArxivResponse("hang", <<>>)

NewsAnswers(service) ==
    IF service.kind = "down"
    THEN {NewsResponse(k, <<>>) : k \in {"network", "status", "malformed"}}
    ELSE IF service.kind = "hang" THEN {}
    ELSE {service}

ArxivAnswers(service) ==
    IF service.kind = "down"
    THEN {ArxivResponse(k, <<>>) : k \in {"network", "status", "unparsable"}}
    ELSE IF service.kind = "hang" THEN {}
    ELSE {service}

\* What the process can meet: NEWS_API_KEY set or not, and the two services.
Configs ==
    { [hasKey |-> FALSE, news |-> NewsDown,
                         arxiv |-> ArxivResponse("ok", <<Entry1>>)],
      [hasKey |-> FALSE, news |-> NewsDown,
                         arxiv |-> ArxivDown],
      [hasKey |-> TRUE,  news |-> NewsResponse("ok", <<ArtNullText, ArtNullUrl>>),
                         arxiv |-> ArxivResponse("ok", <<Entry1>>)],
      [hasKey |-> TRUE,  news |-> NewsResponse("ok", <<ArtNullUrl, ArtLive>>),
                         arxiv |-> ArxivDown],
      [hasKey |-> TRUE,  news |-> NewsResponse("ok", <<ArtLive, ArtNoSource>>),
                         arxiv |-> ArxivResponse("ok", <<>>)],
      [hasKey |-> TRUE,  news |-> NewsDown,
                         arxiv |-> ArxivDown] }

(***************************************************************************)
(* getMockNewsData                                                         *)
(***************************************************************************)
exampleCom == <<"e", "x", "a", "m", "p", "l", "e", ".", "c", "o", "m">>

MockUrl(digit) ==
    <<"h", "t", "t", "p", "s", ":", "/", "/">> \o exampleCom
        \o <<"/", "n", "e", "w", "s", "/", digit>>

Hours(h) == h * 60 * 60 * 1000

\* a record whose type tag is always 'news'
SourceRecordNews(title, description, url, publishedAt, source, type, score) ==
    [title |-> title, description |-> description, url |-> url,
     publishedAt |-> publishedAt, source |-> source, type |-> "news",
     relevanceScore |-> score]

SourceRecord(title, description, url, publishedAt, source, type, score) ==
    [title |-> title, description |-> description, url |-> url,
     publishedAt |-> publishedAt, source |-> source, type |-> type,
     relevanceScore |-> score]

getMockNewsData(query, t) ==
    << SourceRecord(
         <<"Breakthrough ">> \o query \o <<" capabilities revolutionize enterprise operations">>,
         <<"Revolutionary developments in ">> \o query \o <<" technology demonstrate unprecedented capabilities">>,
         MockUrl("1"), toISOString(t), <<"Enterprise Tech Daily">>,
         "news", Fraction(95, 100)),
       SourceRecord(
         query \o <<" market dynamics: Investment surge and competitive repositioning">>,
         <<"Comprehensive market analysis reveals $25B in new investments">>,
         MockUrl("2"), toISOString(t - Hours(12)), <<"Market Intelligence Report">>,
         "industry", Fraction(92, 100)),
       SourceRecord(
         <<"Regulatory frameworks evolve to address ">> \o query \o <<" implementation challenges">>,
         <<"International regulatory bodies collaborate on comprehensive guidelines">>,
         MockUrl("3"), toISOString(t - Hours(18)), <<"Regulatory Affairs Quarterly">>,
         "news", Fraction(89, 100)),
       SourceRecord(
         <<"Technical architecture innovations enable scalable ">> \o query \o <<" deployment">>,
         <<"Advanced engineering approaches enable organizations to deploy ">> \o query \o <<" solutions at enterprise scale">>,
         MockUrl("4"), toISOString(t - Hours(24)), <<"Technical Architecture Review">>,
         "industry", Fraction(86, 100)),
       SourceRecord(
         <<"Global adoption patterns reveal regional ">> \o query \o <<" implementation strategies">>,
         <<"Cross-regional analysis demonstrates varying approaches to ">> \o query \o <<" adoption">>,
         MockUrl("5"), toISOString(t - Hours(36)), <<"Global Technology Trends">>,
         "news", Fraction(84, 100)),
       SourceRecord(
         <<"Industry transformation accelerates through ">> \o query \o <<" integration">>,
         <<"Sector-specific implementations demonstrate transformative potential">>,
         MockUrl("6"), toISOString(t - Hours(48)), <<"Industry Transformation Weekly">>,
         "industry", Fraction(88, 100)) >>

(***************************************************************************)
(* The adapters.  A promise is [state, value]; an adapter's continuation   *)
(* maps the response of its outbound call to the promise it settles.       *)
(***************************************************************************)
Pending == [state |-> "pending", value |-> <<>>]
NotCalled == [state |-> "none", value |-> <<>>]
Fulfilled(v) == [state |-> "fulfilled", value |-> v]
Rejected == [state |-> "rejected", value |-> <<>>]

\* the object literal of searchNewsAPI's map callback raises on
\* article.source.name of a null source and where calculateRelevance raises
ArticleThrows(article, query) ==
    \/ article.source = Null
    \/ calculateRelevanceThrows(ToStr(article.title) \o <<" ">> \o ToStr(article.description), query)

ArticleRecord(article, query) ==
    SourceRecord(article.title, article.description, article.url,
                 article.publishedAt, article.source, "news",
                 calculateRelevance(ToStr(article.title) \o <<" ">> \o ToStr(article.description), query))

\* searchNewsAPI without its catch block
searchNewsAPIResumeNoCatch(response, query, t) ==
    IF response.kind # "ok"
       \/ \E i \in 1..Len(response.articles) : ArticleThrows(response.articles[i], query)
    THEN Rejected
    ELSE Fulfilled([i \in 1..Len(response.articles) |->
                        ArticleRecord(response.articles[i], query)])

\* searchNewsAPI after its outbound call settled with `response`, at time t
searchNewsAPIResume(response, query, t) ==
    IF response.kind # "ok"
    THEN Fulfilled(getMockNewsData(query, t))
    ELSE IF \E i \in 1..Len(response.articles) : ArticleThrows(response.articles[i], query)
         THEN Fulfilled(getMockNewsData(query, t))
         ELSE Fulfilled([i \in 1..Len(response.articles) |->
                             ArticleRecord(response.articles[i], query)])

EntryRecord(entry, query) ==
    SourceRecord(Trim(entry.title),
                 Substring(Trim(entry.summary), 0, 200) \o <<".", ".", ".">>,
                 Trim(entry.id), Trim(entry.published), <<"arXiv">>, "academic",
                 calculateRelevance(Trim(entry.title) \o <<" ">> \o Trim(entry.summary), query))

\* searchArxiv without its catch block
searchArxivResumeNoCatch(response, query) ==
    IF response.kind # "ok"
       \/ \E i \in 1..Len(response.entries) :
             calculateRelevanceThrows(Trim(response.entries[i].title) \o <<" ">>
                                        \o Trim(response.entries[i].summary), query)
    THEN Rejected
    ELSE Fulfilled([i \in 1..Len(response.entries) |->
                        EntryRecord(response.entries[i], query)])

\* searchArxiv after its outbound call settled with `response`
searchArxivResume(response, query) ==
    IF response.kind # "ok"
    THEN Fulfilled(<<>>)
    ELSE IF \E i \in 1..Len(response.entries) :
               calculateRelevanceThrows(Trim(response.entries[i].title) \o <<" ">>
                                          \o Trim(response.entries[i].summary), query)
         THEN Fulfilled(<<>>)
         ELSE Fulfilled([i \in 1..Len(response.entries) |->
                             EntryRecord(response.entries[i], query)])

(***************************************************************************)
(* State                                                                   *)
(***************************************************************************)
VARIABLES
    now,        \* Date.now(), in milliseconds
    env,        \* process.env: [hasKey], whether NEWS_API_KEY is set
    upstream,   \* what the two services answer: [news, arxiv]
    cache,      \* this.cache: a Map from cache key to [data, timestamp]
    calls,      \* the calls of searchWebSources, by caller
    http,       \* the requests of the two API routes and their responses
    relevance   \* one evaluation of calculateRelevance: its inputs and outcome

vars == <<now, env, upstream, cache, calls, http, relevance>>

Calls == DOMAIN calls

\* this.cacheExpiry
cacheExpiry == 30 * 60 * 1000

\* the step of the clock: two steps are exactly the expiry
ClockStep == cacheExpiry \div 2

\* a lookup that never finds an entry
MapGetNothing(map, key) == <<>>

\* Map.prototype.get: the entry, or nothing (undefined)
MapGet(map, key) == IF key \in DOMAIN map THEN <<map[key]>> ELSE <<>>

\* a store that keeps the entry already there
MapSetIfAbsent(map, key, value) ==
    [k \in (DOMAIN map) \cup {key} |-> IF k \in DOMAIN map THEN map[k] ELSE value]

\* Map.prototype.set
MapSet(map, key, value) ==
    [k \in (DOMAIN map) \cup {key} |-> IF k = key THEN value ELSE map[k]]

\* `search_${query}_${timeFrame}`
cacheKey(query, timeFrame) ==
    <<"s", "e", "a", "r", "c", "h", "_">> \o query \o <<"_">> \o timeFrame

\* the comparison turned around
CacheHitInverted(cached, t) ==
    cached # <<>> /\ t - cached[1].timestamp > cacheExpiry

\* the boundary taken as fresh
CacheHitInclusive(cached, t) ==
    cached # <<>> /\ t - cached[1].timestamp <= cacheExpiry

\* cached && Date.now() - cached.timestamp < this.cacheExpiry
CacheHit(cached, t) ==
    cached # <<>> /\ t - cached[1].timestamp < cacheExpiry

GenericMessage == <<"Search service temporarily unavailable">>

Error(name, message) == [name |-> name, message |-> message]

\* the TypeError of reading .includes of a null url
UrlTypeError ==
    Error("TypeError", <<"Cannot read properties of null (reading 'includes')">>)

IdleCall ==
    [pc |-> "idle", query |-> <<>>, timeFrame |-> <<>>,
     news |-> NotCalled, arxiv |-> NotCalled,
     outcome |-> "none", value |-> <<>>, error |-> <<>>, logged |-> <<>>,
     \* the history of the call, which no code reads
     served |-> "none", outbound |-> {}, stale |-> <<>>, endedAt |-> 0,
     given |-> <<>>]

\* no evaluation of calculateRelevance is under way
NoEvaluation == [pc |-> "none", text |-> <<>>, query |-> <<>>, value |-> <<>>]

Init ==
    /\ now = 0
    /\ \E cfg \in Configs :
          /\ env = [hasKey |-> cfg.hasKey]
          /\ upstream = [news |-> cfg.news, arxiv |-> cfg.arxiv]
    /\ cache = <<>>
    /\ calls = [c \in 1..MaxCalls |-> IdleCall]
    /\ http = <<>>
    /\ relevance = NoEvaluation

(***************************************************************************)
(* searchWebSources, after Promise.allSettled: lines 96 to 130             *)
(***************************************************************************)
RECURSIVE Flat(_)
Flat(seqs) == IF seqs = <<>> THEN <<>> ELSE Head(seqs) \o Flat(Tail(seqs))

\* Boolean(r): every element an adapter returns is an object, which is truthy
Truthy(r) == TRUE

\* r.type === 'news', r.type === 'academic'
IsNews(r) == r.type = "news"

IsAcademic(r) == r.type = "academic"

\* result.status === 'fulfilled'
IsFulfilled(p) == p.state = "fulfilled"

\* r.url && r.url.includes('example.com')
IsMockUrl(r) == r.url # Null /\ r.url # <<>> /\ Includes(r.url, exampleCom)

RECURSIVE SomeNotExample(_, _)
\* newsResults.some(r => !r.url.includes('example.com')), which raises at
\* the first record it reaches whose url is null
SomeNotExample(records, i) ==
    IF i > Len(records) THEN "false"
    ELSE IF records[i].url = Null THEN "TypeError"
    ELSE IF ~Includes(records[i].url, exampleCom) THEN "true"
    ELSE SomeNotExample(records, i + 1)

\* the live test without its look at the urls: hasNewsAPI &&
\* newsResults.length > 0
isLiveDataAnyNews(hasNewsAPI, newsResults) ==
    IF ~hasNewsAPI \/ Len(newsResults) = 0 THEN "false" ELSE "true"

\* hasNewsAPI && newsResults.length > 0 && newsResults.some(...)
isLiveData(hasNewsAPI, newsResults) ==
    IF ~hasNewsAPI \/ Len(newsResults) = 0 THEN "false"
    ELSE SomeNotExample(newsResults, 1)

\* the values flattened with the last adapter's records first
processedResultsReversed(settled) ==
    Flat([i \in 1..Len(SelectSeq(settled, IsFulfilled)) |->
             SelectSeq(settled, IsFulfilled)[Len(SelectSeq(settled, IsFulfilled)) + 1 - i].value])

\* the settled promises that were fulfilled, their values flattened
processedResults(settled) ==
    SelectSeq(Flat([i \in 1..Len(SelectSeq(settled, IsFulfilled)) |->
                       SelectSeq(settled, IsFulfilled)[i].value]),
              Truthy)

SearchResultSet(results, query, timeFrame, t, hasNewsAPI, live) ==
    [results |-> results,
     totalFound |-> Len(results),
     searchQuery |-> query,
     timeFrame |-> timeFrame,
     timestamp |-> toISOString(t),
     dataSource |->
        [isLive |-> live,
         hasNewsAPI |-> hasNewsAPI,
         sources |-> [news |-> Len(SelectSeq(results, IsNews)),
                      academic |-> Len(SelectSeq(results, IsAcademic)),
                      mock |-> Len(SelectSeq(results, IsMockUrl))],
         status |-> IF live THEN "LIVE_DATA" ELSE "MOCK_DATA_DEMO"]]

\* the caught error thrown on as it is
ThrownOriginal(error) == error

\* what the caught error becomes: throw new Error('Search service ...')
Thrown(error) == Error("Error", GenericMessage)

\* the catch block dropping the entry under the key: this.cache.delete
FinishEvictOnError(call, map, t) ==
    LET results == processedResults(<<call.news, call.arxiv>>)
        live    == isLiveData(env.hasKey, SelectSeq(results, IsNews))
        data    == SearchResultSet(results, call.query, call.timeFrame, t,
                                   env.hasKey, live = "true")
        key     == cacheKey(call.query, call.timeFrame)
    IN  IF live = "TypeError"
        THEN [call |-> [call EXCEPT !.pc = "done", !.outcome = "rejected",
                                    !.error = <<Thrown(UrlTypeError)>>,
                                    !.logged = <<UrlTypeError>>,
                                    !.endedAt = t],
              cache |-> [k \in (DOMAIN map) \ {key} |-> map[k]]]
        ELSE [call |-> [call EXCEPT !.pc = "done", !.outcome = "fulfilled",
                                    !.value = <<data>>, !.served = "adapters",
                                    !.endedAt = t],
              cache |-> MapSet(map, key, [data |-> data, timestamp |-> t])]

\* a set with fallback records returned without being stored
FinishLiveOnly(call, map, t) ==
    LET results == processedResults(<<call.news, call.arxiv>>)
        live    == isLiveData(env.hasKey, SelectSeq(results, IsNews))
        data    == SearchResultSet(results, call.query, call.timeFrame, t,
                                   env.hasKey, live = "true")
    IN  IF live = "TypeError"
        THEN [call |-> [call EXCEPT !.pc = "done", !.outcome = "rejected",
                                    !.error = <<Thrown(UrlTypeError)>>,
                                    !.logged = <<UrlTypeError>>,
                                    !.endedAt = t],
              cache |-> map]
        ELSE [call |-> [call EXCEPT !.pc = "done", !.outcome = "fulfilled",
                                    !.value = <<data>>, !.served = "adapters",
                                    !.endedAt = t],
              cache |-> IF data.dataSource.sources.mock > 0 THEN map
                        ELSE MapSet(map, cacheKey(call.query, call.timeFrame),
                                    [data |-> data, timestamp |-> t])]

\* the result set returned without this.cache.set
FinishNoPut(call, map, t) ==
    LET results == processedResults(<<call.news, call.arxiv>>)
        live    == isLiveData(env.hasKey, SelectSeq(results, IsNews))
        data    == SearchResultSet(results, call.query, call.timeFrame, t,
                                   env.hasKey, live = "true")
    IN  IF live = "TypeError"
        THEN [call |-> [call EXCEPT !.pc = "done", !.outcome = "rejected",
                                    !.error = <<Thrown(UrlTypeError)>>,
                                    !.logged = <<UrlTypeError>>,
                                    !.endedAt = t],
              cache |-> map]
        ELSE [call |-> [call EXCEPT !.pc = "done", !.outcome = "fulfilled",
                                    !.value = <<data>>, !.served = "adapters",
                                    !.endedAt = t],
              cache |-> map]

\* The call record and the cache once both adapters of `call` have settled.
Finish(call, map, t) ==
    LET results == processedResults(<<call.news, call.arxiv>>)
        live    == isLiveData(env.hasKey, SelectSeq(results, IsNews))
        data    == SearchResultSet(results, call.query, call.timeFrame, t,
                                   env.hasKey, live = "true")
    IN  IF live = "TypeError"
        THEN [call |-> [call EXCEPT !.pc = "done", !.outcome = "rejected",
                                    !.error = <<Thrown(UrlTypeError)>>,
                                    !.logged = <<UrlTypeError>>,
                                    !.endedAt = t],
              cache |-> map]
        ELSE [call |-> [call EXCEPT !.pc = "done", !.outcome = "fulfilled",
                                    !.value = <<data>>, !.served = "adapters",
                                    !.endedAt = t],
              cache |-> MapSet(map, cacheKey(call.query, call.timeFrame),
                               [data |-> data, timestamp |-> t])]

(***************************************************************************)
(* The API routes.  A request is [route, pc, body, slots, sent]: the calls *)
(* of searchWebSources it made are the slots, the responses it wrote are   *)
(* sent.  A property that is an object or null is a sequence of one record *)
(* or the empty sequence.                                                  *)
(***************************************************************************)
IdleRequest ==
    [route |-> "none", pc |-> "idle", body |-> <<>>, slots |-> <<>>, sent |-> <<>>,
     \* the history of a request of POST /api/analyze: the upstream
     \* responses that arrived for its call while it waited, in order
     arrivals |-> <<>>]

strategic == <<"strategic">>

global == <<"global">>

\* the keys of baseAnalysis in getAnalysisConfig
AnalysisDepths == {strategic, <<"technical">>, <<"market">>, <<"comprehensive">>}

\* Math.round(n / total * 100), for 0 <= n <= total
Percent(n, total) == (200 * n + total) \div (2 * total)

\* categorizeSourceTypes
categorizeSourceTypes(results) ==
    LET news     == Len(SelectSeq(results, IsNews))
        academic == Len(SelectSeq(results, IsAcademic))
        industry == Len(results) - news - academic
        total    == IF Len(results) = 0 THEN 1 ELSE Len(results)
    IN  [news |-> Percent(news, total), academic |-> Percent(academic, total),
         industry |-> Percent(industry, total)]

\* generateAIAnalysis: the narrative of the configuration that the depth
\* selects (baseAnalysis[depth] || baseAnalysis.strategic), which is text
\* around the query and the shares of the source types
generateAIAnalysis(searchResults, query, analysisDepth, t) ==
    [config |-> IF analysisDepth \in AnalysisDepths THEN analysisDepth ELSE strategic,
     query |-> query,
     sourceTypes |-> categorizeSourceTypes(searchResults.results),
     sources_analyzed |-> searchResults.totalFound,
     analysisDepth |-> analysisDepth,
     lastUpdated |-> toISOString(t)]

\* res.status(status).json(payload)
Respond(request, status, payload) ==
    [request EXCEPT !.pc = "responded",
                    !.sent = Append(@, [status |-> status, payload |-> payload])]

\* POST /api/analyze after its await of searchWebSources: lines 946 to 966
AnalyzeResume(request, call, t) ==
    IF call.outcome = "rejected"
    THEN Respond(request, 500,
                 [error |-> <<"Analysis failed">>,
                  message |-> call.error[1].message,
                  timestamp |-> toISOString(t)])
    ELSE Respond(request, 200,
                 [query |-> call.query,
                  timeFrame |-> DefaultTo(request.body[1].timeFrame, week),
                  analysisDepth |-> DefaultTo(request.body[1].analysisDepth, strategic),
                  region |-> DefaultTo(request.body[1].region, global),
                  searchResults |-> call.value[1],
                  analysis |-> generateAIAnalysis(call.value[1], call.query,
                                  DefaultTo(request.body[1].analysisDepth, strategic), t),
                  timestamp |-> toISOString(t)])

\* the last record in place of the first
TopStoryLast(results) == IF results = <<>> THEN <<>> ELSE <<results[Len(results)]>>

\* results.results[0] || null
TopStory(results) == IF results = <<>> THEN <<>> ELSE <<results[1]>>

\* GET /api/trending after Promise.all settled: lines 980 to 998.  It
\* rejects with the first rejection and fulfils once every call fulfilled.
TrendingResume(request, settled, t) ==
    IF \E i \in 1..Len(request.slots) : settled[request.slots[i]].outcome = "rejected"
    THEN Respond(request, 500, [error |-> <<"Failed to fetch trending topics">>])
    ELSE IF \A i \in 1..Len(request.slots) : settled[request.slots[i]].pc = "done"
    THEN Respond(request, 200,
                 [trending |->
                     [i \in 1..Len(request.slots) |->
                        [query |-> settled[request.slots[i]].query,
                         count |-> settled[request.slots[i]].value[1].totalFound,
                         topStory |-> TopStory(settled[request.slots[i]].value[1].results)]],
                  timestamp |-> toISOString(t)])
    ELSE request

\* History: the response of `adapter` to call c arrived.
Arrived(requests, c, adapter) ==
    [r \in DOMAIN requests |->
        IF requests[r].pc = "waiting" /\ requests[r].route = "analyze"
              /\ requests[r].slots = <<c>>
        THEN [requests[r] EXCEPT !.arrivals = Append(@, adapter)]
        ELSE requests[r]]

\* The handlers that await a call go on in the turn in which it settles.
Resume(requests, settled, t) ==
    [r \in DOMAIN requests |->
        IF requests[r].pc # "waiting" THEN requests[r]
        ELSE IF requests[r].route = "analyze"
             THEN IF settled[requests[r].slots[1]].pc = "done"
                  THEN AnalyzeResume(requests[r], settled[requests[r].slots[1]], t)
                  ELSE requests[r]
             ELSE TrendingResume(requests[r], settled, t)]

\* after an adapter settled: the call goes on once none is pending
Settle(c, call, adapter) ==
    /\ IF call.news.state = "pending" \/ call.arxiv.state = "pending"
       THEN /\ calls' = [calls EXCEPT ![c] = call]
            /\ UNCHANGED cache
       ELSE LET done == Finish(call, cache, now)
            IN  /\ calls' = [calls EXCEPT ![c] = done.call]
                /\ cache' = done.cache
    /\ http' = Resume(Arrived(http, c, adapter), calls', now)

(***************************************************************************)
(* Actions                                                                 *)
(***************************************************************************)
\* History: the timestamp of the result set of an entry that is found at
\* least cacheExpiry old, if one is found
StaleStamp(cached, t) ==
    IF cached # <<>> /\ t - cached[1].timestamp >= cacheExpiry
    THEN <<cached[1].data.timestamp>> ELSE <<>>

\* searchNewsAPI up to its first await: without a key, the mock data
searchNewsAPI(query, t) ==
    IF ~env.hasKey THEN Fulfilled(getMockNewsData(query, t)) ELSE Pending

\* a hit that stamps the cached set with the time of the hit before it
\* returns it
searchWebSourcesRestamped(query, argument, map, t) ==
    LET timeFrame == DefaultTo(argument, week)
        cached    == MapGet(map, cacheKey(query, timeFrame))
        call      == [IdleCall EXCEPT !.query = query, !.timeFrame = timeFrame,
                                      !.given = argument,
                                      !.stale = StaleStamp(cached, t)]
    IN  IF CacheHit(cached, t)
        THEN [call EXCEPT !.pc = "done", !.outcome = "fulfilled",
                          !.value = <<[cached[1].data EXCEPT !.timestamp = toISOString(t)]>>,
                          !.served = "cache",
                          !.endedAt = t]
        ELSE [call EXCEPT !.pc = "awaiting",
                          !.news = searchNewsAPI(query, t),
                          !.arxiv = Pending,
                          !.outbound = (IF env.hasKey THEN {"news"} ELSE {})
                                          \cup {"arxiv"}]

\* the adapters one after the other: await searchNewsAPI(...) before
\* searchArxiv(...) is called
searchWebSourcesSequential(query, argument, map, t) ==
    LET timeFrame == DefaultTo(argument, week)
        cached    == MapGet(map, cacheKey(query, timeFrame))
        call      == [IdleCall EXCEPT !.query = query, !.timeFrame = timeFrame,
                                      !.given = argument,
                                      !.stale = StaleStamp(cached, t)]
    IN  IF CacheHit(cached, t)
        THEN [call EXCEPT !.pc = "done", !.outcome = "fulfilled",
                          !.value = <<cached[1].data>>,
                          !.served = "cache",
                          !.endedAt = t]
        ELSE [call EXCEPT !.pc = "awaiting",
                          !.news = searchNewsAPI(query, t),
                          !.outbound = IF env.hasKey THEN {"news"} ELSE {}]

\* searchWebSources(query, timeFrame) up to its first await, with the Map
\* `map` and at time t: the call as it stands then (lines 82 to 94)
searchWebSources(query, argument, map, t) ==
    LET timeFrame == DefaultTo(argument, week)
        cached    == MapGet(map, cacheKey(query, timeFrame))
        call      == [IdleCall EXCEPT !.query = query, !.timeFrame = timeFrame,
                                      !.given = argument,
                                      !.stale = StaleStamp(cached, t)]
    IN  IF CacheHit(cached, t)
        THEN [call EXCEPT !.pc = "done", !.outcome = "fulfilled",
                          !.value = <<cached[1].data>>,
                          !.served = "cache",
                          !.endedAt = t]
        ELSE [call EXCEPT !.pc = "awaiting",
                          !.news = searchNewsAPI(query, t),
                          !.arxiv = Pending,
                          !.outbound = (IF env.hasKey THEN {"news"} ELSE {})
                                          \cup {"arxiv"}]

\* A caller invokes searchWebSources(query, timeFrame).
Search(c, query, timeFrame) ==
    /\ calls[c].pc = "idle"
    /\ c > 1 => calls[c - 1].pc # "idle"
    /\ Cardinality({d \in Calls : calls[d].pc = "awaiting"}) < MaxInFlight
    /\ calls' = [calls EXCEPT ![c] = searchWebSources(query, timeFrame, cache, now)]
    /\ UNCHANGED <<now, env, upstream, cache, http, relevance>>

\* The bodies of POST /api/analyze: {}, an empty query, a query with a
\* time frame and a depth, and a query with a region and an unknown depth
Bodies ==
    { [query |-> Undefined, timeFrame |-> Undefined,
       analysisDepth |-> Undefined, region |-> Undefined],
      [query |-> <<>>, timeFrame |-> week,
       analysisDepth |-> Undefined, region |-> Undefined],
      [query |-> <<"a">>, timeFrame |-> <<"b", "_">> \o week,
       analysisDepth |-> <<"technical">>, region |-> Undefined],
      [query |-> <<"a">>, timeFrame |-> Undefined,
       analysisDepth |-> <<"deep">>, region |-> <<"b">>] }

\* the call slots of request r when every request makes n calls
SlotsOf(r, n) == [i \in 1..n |-> (r - 1) * n + i]

\* POST /api/analyze up to its await of searchWebSources, and beyond it
\* when the search is served from the cache: lines 934 to 966.
Analyze(r, body) ==
    /\ http[r].pc = "idle"
    /\ r > 1 => http[r - 1].pc # "idle"
    /\ LET query     == body.query
           timeFrame == DefaultTo(body.timeFrame, week)
           region    == DefaultTo(body.region, global)
           request   == [IdleRequest EXCEPT !.route = "analyze", !.body = <<body>>]
       IN  IF Falsy(query)
           THEN /\ http' = [http EXCEPT ![r] =
                              Respond(request, 400,
                                      [error |-> <<"Query parameter is required">>])]
                /\ UNCHANGED calls
           ELSE LET enhancedQuery ==
                        IF region # global THEN query \o <<" ">> \o region ELSE query
                    slots == SlotsOf(r, 1)
                IN  /\ calls' = [calls EXCEPT ![slots[1]] =
                                   searchWebSources(enhancedQuery, timeFrame, cache, now)]
                    /\ http' = Resume([http EXCEPT ![r] =
                                         [request EXCEPT !.pc = "waiting",
                                                         !.slots = slots]],
                                      calls', now)
    /\ UNCHANGED <<now, env, upstream, cache, relevance>>

\* the topics of GET /api/trending
trendingQueries ==
    << <<"l", "a", "r", "g", "e", " ", "l", "a", "n", "g", "u", "a", "g", "e", " ",
         "m", "o", "d", "e", "l", "s">>,
       <<"A", "I", " ", "r", "e", "g", "u", "l", "a", "t", "i", "o", "n", "s">>,
       <<"o", "p", "e", "n", " ", "s", "o", "u", "r", "c", "e", " ", "A", "I">>,
       <<"A", "I", " ", "c", "h", "i", "p", "s", " ",
         "s", "e", "m", "i", "c", "o", "n", "d", "u", "c", "t", "o", "r", "s">>,
       <<"g", "e", "n", "e", "r", "a", "t", "i", "v", "e", " ", "A", "I", " ",
         "s", "t", "a", "r", "t", "u", "p", "s">> >>

\* GET /api/trending up to its await of Promise.all, and beyond it when
\* every search is served from the cache: lines 969 to 998.  The model
\* takes one such request at a time.
Trending(r) ==
    /\ http[r].pc = "idle"
    /\ r > 1 => http[r - 1].pc # "idle"
    /\ \A c \in Calls : calls[c].pc # "awaiting"
    /\ LET slots == SlotsOf(r, Len(trendingQueries))
       IN  /\ calls' = [c \in Calls |->
                          IF \E i \in 1..Len(slots) : slots[i] = c
                          THEN searchWebSources(
                                   trendingQueries[CHOOSE i \in 1..Len(slots) : slots[i] = c],
                                   week, cache, now)
                          ELSE calls[c]]
           /\ http' = Resume([http EXCEPT ![r] =
                                [IdleRequest EXCEPT !.route = "trending",
                                                    !.pc = "waiting",
                                                    !.slots = slots]],
                             calls', now)
    /\ UNCHANGED <<now, env, upstream, cache, relevance>>

\* The news API call of c settles and searchNewsAPI resumes: lines 151 to 163.
NewsSettles(c) ==
    /\ calls[c].pc = "awaiting"
    /\ calls[c].news.state = "pending"
    /\ \E response \in NewsAnswers(upstream.news) :
          Settle(c, [calls[c] EXCEPT
                       !.news = searchNewsAPIResume(response, calls[c].query, now)],
                "news")
    /\ UNCHANGED <<now, env, upstream, relevance>>

\* The arXiv call of c settles and searchArxiv resumes: lines 239 to 263.
ArxivSettles(c) ==
    /\ calls[c].pc = "awaiting"
    /\ calls[c].arxiv.state = "pending"
    /\ \E response \in ArxivAnswers(upstream.arxiv) :
          Settle(c, [calls[c] EXCEPT
                       !.arxiv = searchArxivResume(response, calls[c].query)],
                "arxiv")
    /\ UNCHANGED <<now, env, upstream, relevance>>

\* Time passes.
Tick ==
    /\ now + ClockStep <= MaxTicks * ClockStep
    /\ now' = now + ClockStep
    /\ UNCHANGED <<env, upstream, cache, calls, http, relevance>>

Next ==
    \/ \E c \in Calls, a \in Args : Search(c, a[1], a[2])
    \/ \E c \in Calls : NewsSettles(c)
    \/ \E c \in Calls : ArxivSettles(c)
    \/ Tick

Spec == Init /\ [][Next]_vars

(***************************************************************************)
(* The same calls when a service may hang.  The event loop runs the        *)
(* continuation of every response that has arrived, so the two settling    *)
(* steps are taken whenever they stay possible.                            *)
(***************************************************************************)
\* What the process can meet here: both services answer (with nothing
\* for the query); the arXiv service hangs, with and without a key for
\* the news API; the news API hangs.
LiveConfigs ==
    { [hasKey |-> TRUE,  news |-> NewsResponse("ok", <<>>),
                         arxiv |-> ArxivResponse("ok", <<>>)],
      [hasKey |-> TRUE,  news |-> NewsResponse("ok", <<ArtLive>>),
                         arxiv |-> ArxivHangs],
      [hasKey |-> FALSE, news |-> NewsDown,
                         arxiv |-> ArxivHangs],
      [hasKey |-> TRUE,  news |-> NewsHangs,
                         arxiv |-> ArxivResponse("ok", <<>>)] }

LiveInit ==
    /\ now = 0
    /\ \E cfg \in LiveConfigs :
          /\ env = [hasKey |-> cfg.hasKey]
          /\ upstream = [news |-> cfg.news, arxiv |-> cfg.arxiv]
    /\ cache = <<>>
    /\ calls = [c \in 1..MaxCalls |-> IdleCall]
    /\ http = <<>>
    /\ relevance = NoEvaluation

LiveSpec ==
    /\ LiveInit
    /\ [][Next]_vars
    /\ \A c \in 1..MaxCalls : WF_vars(NewsSettles(c)) /\ WF_vars(ArxivSettles(c))

(***************************************************************************)
(* The route POST /api/analyze and its callers                             *)
(***************************************************************************)
MaxRequests == 2

AnalyzeInit ==
    /\ now = 0
    /\ \E cfg \in Configs :
          /\ env = [hasKey |-> cfg.hasKey]
          /\ upstream = [news |-> cfg.news, arxiv |-> cfg.arxiv]
    /\ cache = <<>>
    /\ calls = [c \in 1..MaxRequests |-> IdleCall]
    /\ http = [r \in 1..MaxRequests |-> IdleRequest]
    /\ relevance = NoEvaluation

AnalyzeNext ==
    \/ \E r \in DOMAIN http, body \in Bodies : Analyze(r, body)
    \/ \E c \in Calls : NewsSettles(c)
    \/ \E c \in Calls : ArxivSettles(c)
    \/ Tick

AnalyzeSpec == AnalyzeInit /\ [][AnalyzeNext]_vars

(***************************************************************************)
(* The route GET /api/trending and its callers                             *)
(***************************************************************************)
MaxTrending == 2

\* What the process can meet here: no key and one arXiv entry; a key, no
\* article and no entry for any topic; a key and an article without url;
\* a key and both services down.
TrendingConfigs ==
    { [hasKey |-> FALSE, news |-> NewsDown,
                         arxiv |-> ArxivResponse("ok", <<Entry1>>)],
      [hasKey |-> TRUE,  news |-> NewsResponse("ok", <<>>),
                         arxiv |-> ArxivResponse("ok", <<>>)],
      [hasKey |-> TRUE,  news |-> NewsResponse("ok", <<ArtNullUrl, ArtLive>>),
                         arxiv |-> ArxivDown],
      [hasKey |-> TRUE,  news |-> NewsDown,
                         arxiv |-> ArxivDown] }

TrendingInit ==
    /\ now = 0
    /\ \E cfg \in TrendingConfigs :
          /\ env = [hasKey |-> cfg.hasKey]
          /\ upstream = [news |-> cfg.news, arxiv |-> cfg.arxiv]
    /\ cache = <<>>
    /\ calls = [c \in 1..(MaxTrending * Len(trendingQueries)) |-> IdleCall]
    /\ http = [r \in 1..MaxTrending |-> IdleRequest]
    /\ relevance = NoEvaluation

\* Time passes between the requests: here the upstream responses of one
\* request arrive within one step of the clock.
TickWhenIdle ==
    /\ \A c \in Calls : calls[c].pc # "awaiting"
    /\ Tick

TrendingNext ==
    \/ \E r \in DOMAIN http : Trending(r)
    \/ \E c \in Calls : NewsSettles(c)
    \/ \E c \in Calls : ArxivSettles(c)
    \/ TickWhenIdle

TrendingSpec == TrendingInit /\ [][TrendingNext]_vars

(***************************************************************************)
(* calculateRelevance on its own: one evaluation for every text and query  *)
(* over small alphabets                                                    *)
(***************************************************************************)
MaxTextLen == 2

MaxQueryLen == 3

\* the strings over the characters `chars` up to length n
Strings(chars, n) == UNION {[1..k -> chars] : k \in 0..n}

Texts == Strings({"a", "B", " "}, MaxTextLen)

Queries == Strings({"a", "B", " ", "+", "."}, MaxQueryLen)

RelevanceInit ==
    /\ now = 0
    /\ env = [hasKey |-> FALSE]
    /\ upstream = [news |-> NewsDown, arxiv |-> ArxivDown]
    /\ cache = <<>>
    /\ calls = <<>>
    /\ http = <<>>
    /\ \E text \in Texts, query \in Queries :
          relevance = [pc |-> "called", text |-> text, query |-> query, value |-> <<>>]

\* calculateRelevance(text, query) runs: it returns its score or raises
\* the SyntaxError of new RegExp(word, 'g')
Evaluate ==
    /\ relevance.pc = "called"
    /\ relevance' =
          IF calculateRelevanceThrows(relevance.text, relevance.query)
          THEN [relevance EXCEPT !.pc = "raised"]
          ELSE [relevance EXCEPT !.pc = "returned",
                   !.value = <<calculateRelevance(relevance.text, relevance.query)>>]
    /\ UNCHANGED <<now, env, upstream, cache, calls, http>>

RelevanceNext == Evaluate

RelevanceSpec == RelevanceInit /\ [][RelevanceNext]_vars

(***************************************************************************)
(* The same calls in a process whose environment may set                   *)
(* CACHE_EXPIRY_MINUTES, as the .env file of the repository does.  The     *)
(* values of process.env are strings; the constructor reads none of them.  *)
(***************************************************************************)
\* CACHE_EXPIRY_MINUTES is not set, or set to as many minutes as one step
\* of the clock
ExpiryOverrides == {Undefined, <<"1", "5">>}

ConfiguredInit ==
    /\ now = 0
    /\ \E override \in ExpiryOverrides :
          env = [hasKey |-> TRUE, CACHE_EXPIRY_MINUTES |-> override]
    /\ upstream = [news |-> NewsDown, arxiv |-> ArxivResponse("ok", <<Entry1>>)]
    /\ cache = <<>>
    /\ calls = [c \in 1..MaxCalls |-> IdleCall]
    /\ http = <<>>
    /\ relevance = NoEvaluation

ConfiguredSpec == ConfiguredInit /\ [][Next]_vars

(***************************************************************************)
(* The same calls while the two services change what they answer: a        *)
(* service that was down comes up and the other way round.  A request that *)
(* is open at the change is answered by the service as it is when the      *)
(* response arrives.                                                       *)
(***************************************************************************)
\* both services down; both up; the news API up with an article that has
\* no url and the arXiv service down
UpstreamStates ==
    { [news |-> NewsDown, arxiv |-> ArxivDown],
      [news |-> NewsResponse("ok", <<ArtLive>>),
       arxiv |-> ArxivResponse("ok", <<Entry1>>)],
      [news |-> NewsResponse("ok", <<ArtNullUrl, ArtLive>>), arxiv |-> ArxivDown] }

MaxChangeCalls == 2

\* upstream.since is history: the time of the last change
ChangeInit ==
    /\ now = 0
    /\ env = [hasKey |-> TRUE]
    /\ \E u \in UpstreamStates :
          upstream = [news |-> u.news, arxiv |-> u.arxiv, since |-> 0]
    /\ cache = <<>>
    /\ calls = [c \in 1..MaxChangeCalls |-> IdleCall]
    /\ http = <<>>
    /\ relevance = NoEvaluation

\* The services change what they answer from now on.
UpstreamChanges ==
    /\ \E u \in UpstreamStates :
          /\ u # [news |-> upstream.news, arxiv |-> upstream.arxiv]
          /\ upstream' = [news |-> u.news, arxiv |-> u.arxiv, since |-> now]
    /\ UNCHANGED <<now, env, cache, calls, http, relevance>>

ChangeNext ==
    \/ \E c \in Calls, a \in Args : Search(c, a[1], a[2])
    \/ \E c \in Calls : NewsSettles(c)
    \/ \E c \in Calls : ArxivSettles(c)
    \/ Tick
    \/ UpstreamChanges

ChangeSpec == ChangeInit /\ [][ChangeNext]_vars

(***************************************************************************)
(* Properties                                                              *)
(***************************************************************************)
KeyOf(call) == cacheKey(call.query, call.timeFrame)

\* c takes the step in which its caller invokes searchWebSources
Starts(c) == calls[c].pc = "idle" /\ calls'[c].pc # "idle"

\* c takes the step in which searchWebSources settles after a miss
Completes(c) == calls[c].pc = "awaiting" /\ calls'[c].pc = "done"

Returned(c) == calls[c].pc = "done" /\ calls[c].outcome = "fulfilled"

\* the entry under key is present and younger than the expiry
FreshEntry(key) == key \in DOMAIN cache /\ now - cache[key].timestamp < cacheExpiry

\* no adapter was invoked and no request was sent
NoAdapter(call) ==
    call.news.state = "none" /\ call.arxiv.state = "none" /\ call.outbound = {}

\* records is the fallback sequence of the news adapter for query
IsFallback(records, query) ==
    /\ records # <<>>
    /\ records = getMockNewsData(query, DateParse(records[1].publishedAt))

\* C1: a call that finds an entry younger than the TTL under its key returns
\* that entry's result set at once and invokes no adapter.
C1_HitReturnsEntry ==
    [][\A c \in Calls :
         (Starts(c) /\ FreshEntry(KeyOf(calls'[c]))) =>
             /\ calls'[c].pc = "done"
             /\ calls'[c].outcome = "fulfilled"
             /\ calls'[c].value = <<cache[KeyOf(calls'[c])].data>>
             /\ NoAdapter(calls'[c])]_vars

C1_Witness ==
    \E c \in Calls : Returned(c) /\ calls[c].served = "cache" /\ NoAdapter(calls[c])

\* C2: no call is served from an entry whose age has reached the TTL, the
\* boundary included: such a call invokes the adapters instead.
C2_NoExpiredEntry ==
    [][\A c \in Calls :
         Starts(c) =>
             LET key == KeyOf(calls'[c])
             IN  /\ calls'[c].served = "cache" =>
                        key \in DOMAIN cache /\ now - cache[key].timestamp < cacheExpiry
                 /\ (key \in DOMAIN cache /\ now - cache[key].timestamp >= cacheExpiry) =>
                        /\ calls'[c].pc = "awaiting"
                        /\ calls'[c].news.state # "none"
                        /\ calls'[c].arxiv.state = "pending"]_vars

\* a call that found an entry exactly TTL old went to the adapters
C2_Witness ==
    \E c \in Calls :
        /\ calls[c].stale # <<>>
        /\ calls[c].arxiv.state # "none"
        /\ KeyOf(calls[c]) \in DOMAIN cache
        /\ DateParse(calls[c].stale[1]) + cacheExpiry = now

\* every call made so far under the cache key of `call` had its arguments
NoOtherPair(call) ==
    \A d \in Calls :
        (calls[d].pc # "idle" /\ KeyOf(calls[d]) = KeyOf(call)) =>
            (calls[d].query = call.query /\ calls[d].timeFrame = call.timeFrame)

\* C3 as stated: a call that starts less than the TTL after a call with the
\* same arguments returned gets that call's result set and sends nothing
\* (stated here for the keys that only one pair of arguments has used).
C3_SecondCallIdentical ==
    [][\A c1, c2 \in Calls :
         ( /\ Starts(c2)
           /\ Returned(c1)
           /\ calls[c1].query = calls'[c2].query
           /\ calls[c1].timeFrame = calls'[c2].timeFrame
           /\ now - calls[c1].endedAt < cacheExpiry
           /\ NoOtherPair(calls[c1]) ) =>
             /\ calls'[c2].pc = "done"
             /\ calls'[c2].value = calls[c1].value
             /\ NoAdapter(calls'[c2])]_vars

\* C3 as amended: when the entry under the key still holds the first call's
\* result set and is younger than the TTL, counted from when it was stored,
\* the second call returns that set, timestamp included, and sends nothing.
C3_SecondCallWhileEntryKept ==
    [][\A c1, c2 \in Calls :
         ( /\ Starts(c2)
           /\ Returned(c1)
           /\ calls[c1].query = calls'[c2].query
           /\ calls[c1].timeFrame = calls'[c2].timeFrame
           /\ FreshEntry(KeyOf(calls[c1]))
           /\ <<cache[KeyOf(calls[c1])].data>> = calls[c1].value ) =>
             /\ calls'[c2].pc = "done"
             /\ calls'[c2].outcome = "fulfilled"
             /\ calls'[c2].value = calls[c1].value
             /\ calls'[c2].value[1].timestamp = calls[c1].value[1].timestamp
             /\ NoAdapter(calls'[c2])]_vars

\* two calls with the same arguments returned the same set, the second from
\* the cache at a later time than the first built it
C3_Witness ==
    \E c1, c2 \in Calls :
        /\ c1 # c2 /\ Returned(c1) /\ Returned(c2)
        /\ calls[c1].query = calls[c2].query
        /\ calls[c1].timeFrame = calls[c2].timeFrame
        /\ calls[c1].served = "adapters" /\ calls[c2].served = "cache"
        /\ calls[c1].value = calls[c2].value
        /\ calls[c2].endedAt > calls[c1].endedAt

\* C4: a call that finds the entry under its key at least TTL old invokes
\* both adapters; when it fulfils, its result set has a later timestamp than
\* the expired one and is the entry under the key.
C4_ExpiredEntryRebuilt ==
    [][\A c \in Calls :
         calls'[c].stale # <<>> =>
             /\ Starts(c) =>
                   /\ calls'[c].pc = "awaiting"
                   /\ calls'[c].news.state # "none"
                   /\ calls'[c].arxiv.state = "pending"
             /\ (Completes(c) /\ calls'[c].outcome = "fulfilled") =>
                   /\ calls'[c].served = "adapters"
                   /\ DateParse(calls'[c].value[1].timestamp)
                         > DateParse(calls'[c].stale[1])
                   /\ KeyOf(calls'[c]) \in DOMAIN cache'
                   /\ <<cache'[KeyOf(calls'[c])].data>> = calls'[c].value
                   /\ cache'[KeyOf(calls'[c])].timestamp = now]_vars

C4_Witness ==
    \E c \in Calls :
        /\ calls[c].stale # <<>>
        /\ Returned(c)
        /\ calls[c].served = "adapters"
        /\ calls[c].value[1].timestamp # calls[c].stale[1]

\* C5: a call only ever returns a result set that was built for its own
\* (query, timeFrame).
C5_EntriesIndependent ==
    \A c \in Calls :
        Returned(c) =>
            /\ calls[c].value[1].searchQuery = calls[c].query
            /\ calls[c].value[1].timeFrame = calls[c].timeFrame

\* C6: when the arXiv call fails during a miss, the call fulfils with
\* exactly the records of the news adapter and counts them.
ArxivFails == upstream.arxiv.kind # "ok"

C6_AcademicFailureTolerated ==
    \A c \in Calls :
        (calls[c].pc = "done" /\ calls[c].arxiv.state # "none" /\ ArxivFails) =>
            /\ calls[c].outcome = "fulfilled"
            /\ calls[c].value[1].results = calls[c].news.value
            /\ \A i \in 1..Len(calls[c].value[1].results) :
                   calls[c].value[1].results[i].type # "academic"
            /\ calls[c].value[1].totalFound = Len(calls[c].news.value)

\* C7: with no live source (no key or the news call fails, and the arXiv
\* call fails) a miss fulfils with exactly the fallback records.
NoLiveSource ==
    /\ ~env.hasKey \/ upstream.news.kind = "down"
    /\ upstream.arxiv.kind = "down"

C7_GracefulDegradation ==
    \A c \in Calls :
        (calls[c].pc = "done" /\ calls[c].arxiv.state # "none" /\ NoLiveSource) =>
            /\ calls[c].outcome = "fulfilled"
            /\ IsFallback(calls[c].value[1].results, calls[c].query)
            /\ \A i \in 1..Len(calls[c].value[1].results) :
                   calls[c].value[1].results[i].type # "academic"

\* the news call was sent and failed, and so did the arXiv call
C7_Witness ==
    \E c \in Calls :
        /\ Returned(c) /\ calls[c].served = "adapters" /\ NoLiveSource
        /\ calls[c].outbound = {"news", "arxiv"}
        /\ Len(calls[c].value[1].results) = 6

\* C8: a call that rejects surfaces the one generic error, and what it
\* surfaces is not the error that was caught and logged.
C8_OneGenericError ==
    \A c \in Calls :
        calls[c].outcome = "rejected" =>
            /\ calls[c].error = <<Error("Error", GenericMessage)>>
            /\ calls[c].logged # <<>>
            /\ calls[c].error # calls[c].logged

C8_Witness ==
    \E c \in Calls :
        calls[c].outcome = "rejected" /\ calls[c].logged = <<UrlTypeError>>

\* C9: no call rejects, whatever the upstream responses hold.
C9_NeverRejects == \A c \in Calls : calls[c].outcome # "rejected"

\* C10: no adapter promise is rejected; when the news call fails or a
\* record cannot be mapped the news adapter fulfils with the fallback
\* sequence, and in the same cases the arXiv adapter fulfils with nothing.
NewsCallFails(query) ==
    \/ upstream.news.kind # "ok"
    \/ \E i \in 1..Len(upstream.news.articles) :
          \/ upstream.news.articles[i].source = Null
          \/ \E w \in 1..Len(Split(query)) : RegExpThrows(Split(query)[w])

ArxivCallFails(query) ==
    \/ upstream.arxiv.kind # "ok"
    \/ /\ upstream.arxiv.entries # <<>>
       /\ \E w \in 1..Len(Split(query)) : RegExpThrows(Split(query)[w])

C10_AdaptersNeverReject ==
    \A c \in Calls :
        /\ calls[c].news.state # "rejected"
        /\ calls[c].arxiv.state # "rejected"
        /\ (calls[c].news.state = "fulfilled" /\ (~env.hasKey \/ NewsCallFails(calls[c].query)))
              => IsFallback(calls[c].news.value, calls[c].query)
        /\ (calls[c].arxiv.state = "fulfilled" /\ ArxivCallFails(calls[c].query))
              => calls[c].arxiv.value = <<>>

\* both bodies arrived, and mapping their records raised in both adapters
C10_Witness ==
    \E c \in Calls :
        /\ env.hasKey
        /\ upstream.news.kind = "ok" /\ upstream.arxiv.kind = "ok"
        /\ upstream.arxiv.entries # <<>>
        /\ calls[c].news.state = "fulfilled" /\ calls[c].arxiv.state = "fulfilled"
        /\ IsFallback(calls[c].news.value, calls[c].query)
        /\ calls[c].arxiv.value = <<>>

\* the records the news adapter of `call` contributed, once it has settled
NewsRecords(call) ==
    IF call.news.state = "fulfilled" THEN call.news.value ELSE <<>>

InUnitRange(score) == score.den > 0 /\ 0 <= score.num /\ score.num <= score.den

\* C12: every record of every returned result set has a title, a url and a
\* type that are not null, and a relevance score within [0, 1].
C12_RecordsWellFormed ==
    \A c \in Calls :
        Returned(c) =>
            \A i \in 1..Len(calls[c].value[1].results) :
                LET r == calls[c].value[1].results[i]
                IN  /\ r.title # Null
                    /\ r.url # Null
                    /\ r.type \in {"news", "academic", "industry"}
                    /\ InUnitRange(r.relevanceScore)

\* the part of C12 that the code does keep: type and score of every record
C12_TypeAndScore ==
    \A c \in Calls :
        Returned(c) =>
            \A i \in 1..Len(calls[c].value[1].results) :
                LET r == calls[c].value[1].results[i]
                IN  /\ r.type \in {"news", "academic", "industry"}
                    /\ InUnitRange(r.relevanceScore)

\* data is a result set built for (query, argument): its count is the
\* length of its results and it names the query and the time frame
BuiltFor(data, query, argument) ==
    /\ data.totalFound = Len(data.results)
    /\ data.searchQuery = query
    /\ data.timeFrame = (IF argument = Undefined THEN week ELSE argument)

\* C13: the result set a call builds and returns, and the entry it stores,
\* carry totalFound = length of results, the call's query and the call's
\* timeFrame argument, 'week' when there was none; every set returned and
\* every set in the cache has totalFound = length of its results and lies
\* under the key of the arguments it names.
C13_SetMatchesItsCall ==
    /\ \A c \in Calls :
          Returned(c) =>
              /\ calls[c].value[1].totalFound = Len(calls[c].value[1].results)
              /\ calls[c].served = "adapters" =>
                    BuiltFor(calls[c].value[1], calls[c].query, calls[c].given)
    /\ \A key \in DOMAIN cache :
          /\ cache[key].data.totalFound = Len(cache[key].data.results)
          /\ key = cacheKey(cache[key].data.searchQuery, cache[key].data.timeFrame)
          /\ \E c \in Calls :
                /\ Returned(c) /\ calls[c].served = "adapters"
                /\ calls[c].value = <<cache[key].data>>
                /\ BuiltFor(cache[key].data, calls[c].query, calls[c].given)

\* a call without a timeFrame argument built a set for 'week', which is in
\* the cache
C13_Witness ==
    \E c \in Calls :
        /\ Returned(c) /\ calls[c].served = "adapters"
        /\ calls[c].given = Undefined
        /\ calls[c].value[1].timeFrame = week
        /\ calls[c].value[1].totalFound = 6
        /\ KeyOf(calls[c]) \in DOMAIN cache
        /\ cache[KeyOf(calls[c])].data = calls[c].value[1]

\* the call of searchWebSources that request r of POST /api/analyze made
CallOf(r) == calls[http[r].slots[1]]

\* C14: the results of a set built from the adapters are the records of
\* the news adapter followed by those of the arXiv adapter, each in the
\* adapter's order, whichever response arrived first.
C14_AdapterOrder ==
    /\ \A c \in Calls :
          (Returned(c) /\ calls[c].served = "adapters") =>
              calls[c].value[1].results = calls[c].news.value \o calls[c].arxiv.value
    /\ \A r \in DOMAIN http :
          (http[r].sent # <<>> /\ http[r].sent[1].status = 200
              /\ CallOf(r).served = "adapters") =>
              /\ http[r].arrivals \in {<<"news", "arxiv">>, <<"arxiv", "news">>, <<"arxiv">>}
              /\ http[r].sent[1].payload.searchResults.results
                    = CallOf(r).news.value \o CallOf(r).arxiv.value

\* the arXiv response arrived before the news response, and the records of
\* the news API still come before the arXiv entry
C14_Witness ==
    \E r \in DOMAIN http :
        /\ http[r].sent # <<>> /\ http[r].sent[1].status = 200
        /\ http[r].arrivals = <<"arxiv", "news">>
        /\ Len(http[r].sent[1].payload.searchResults.results) = 3
        /\ http[r].sent[1].payload.searchResults.results[1].source = <<"N">>
        /\ http[r].sent[1].payload.searchResults.results[2].source = <<"N">>
        /\ http[r].sent[1].payload.searchResults.results[3].source = <<"arXiv">>

\* the body has no query, or an empty one
NoQuery(body) == body.query = Undefined \/ body.query = <<>>

\* request r is handled in this step
Handled(r) == http[r].pc = "idle" /\ http'[r].pc # "idle"

\* the response of request r, once it is written, is the one its query and
\* the outcome of its search call for
RightResponse(r) ==
    LET body == http[r].body[1]
        sent == http[r].sent
    IN  /\ Len(sent) <= 1
        /\ http[r].pc = "responded" <=> Len(sent) = 1
        /\ http[r].pc = "waiting" =>
              /\ ~NoQuery(body)
              /\ CallOf(r).pc = "awaiting"
        /\ http[r].pc = "responded" =>
              IF NoQuery(body)
              THEN /\ sent[1].status = 400
                   /\ http[r].slots = <<>>
              ELSE /\ CallOf(r).pc = "done"
                   /\ CallOf(r).outcome = "fulfilled" =>
                         /\ sent[1].status = 200
                         /\ sent[1].payload.searchResults = CallOf(r).value[1]
                         /\ sent[1].payload.query = CallOf(r).query
                         /\ sent[1].payload.analysis =
                               generateAIAnalysis(CallOf(r).value[1], CallOf(r).query,
                                   DefaultTo(body.analysisDepth, strategic),
                                   DateParse(sent[1].payload.timestamp))
                         /\ sent[1].payload.analysis.sources_analyzed
                               = Len(CallOf(r).value[1].results)
                   /\ CallOf(r).outcome = "rejected" =>
                         /\ sent[1].status = 500
                         /\ sent[1].payload.message = GenericMessage

C19_Answered ==
    \E r \in DOMAIN http :
        /\ http[r].pc = "responded" /\ http[r].sent[1].status = 200
        /\ http[r].sent[1].payload.analysis.sources_analyzed = 7
        /\ http[r].sent[1].payload.analysis.config = strategic
        /\ http[r].sent[1].payload.analysis.analysisDepth = <<"deep">>

\* every call of request r fulfilled
AllFulfilled(r) ==
    \A i \in 1..Len(http[r].slots) :
        calls[http[r].slots[i]].pc = "done" /\ calls[http[r].slots[i]].outcome = "fulfilled"

\* C20: a request of GET /api/trending calls searchWebSources(topic,
\* 'week') once for each of the five topics, in list order; when all five
\* fulfil it answers 200 with one entry per topic in list order, whose
\* count is the totalFound of that topic's set and whose topStory is the
\* first record of its results, or null when there is none; it answers 200
\* in no other case.
C20_TrendingEntries ==
    \A r \in DOMAIN http :
        http[r].route = "trending" =>
            /\ Len(http[r].slots) = 5
            /\ \A i \in 1..5 :
                  /\ calls[http[r].slots[i]].pc # "idle"
                  /\ calls[http[r].slots[i]].query = trendingQueries[i]
                  /\ calls[http[r].slots[i]].given = week
                  /\ \A j \in 1..5 : http[r].slots[i] = http[r].slots[j] => i = j
            /\ AllFulfilled(r) =>
                  /\ Len(http[r].sent) = 1
                  /\ http[r].sent[1].status = 200
                  /\ Len(http[r].sent[1].payload.trending) = 5
                  /\ \A i \in 1..5 :
                        LET entry == http[r].sent[1].payload.trending[i]
                            data  == calls[http[r].slots[i]].value[1]
                        IN  /\ entry.query = trendingQueries[i]
                            /\ entry.count = data.totalFound
                            /\ data.results = <<>> => entry.topStory = <<>>
                            /\ data.results # <<>> => entry.topStory = <<data.results[1]>>
            /\ (http[r].sent # <<>> /\ http[r].sent[1].status = 200) => AllFulfilled(r)

\* a request was answered with five entries of seven sources each, every
\* top story being the first fallback record for its topic
C20_Witness ==
    \E r \in DOMAIN http :
        /\ http[r].sent # <<>> /\ http[r].sent[1].status = 200
        /\ \A i \in 1..5 :
              /\ http[r].sent[1].payload.trending[i].count = 7
              /\ http[r].sent[1].payload.trending[i].topStory # <<>>
              /\ http[r].sent[1].payload.trending[i].topStory[1].url = MockUrl("1")
              /\ Includes(http[r].sent[1].payload.trending[i].topStory[1].title,
                          trendingQueries[i])

\* a request was answered with five entries that have no top story, and
\* the next one was answered the same from the cache
C20_NoTopStory ==
    \E r1, r2 \in DOMAIN http :
        /\ r1 # r2
        /\ http[r1].sent # <<>> /\ http[r1].sent[1].status = 200
        /\ http[r2].sent # <<>> /\ http[r2].sent[1].status = 200
        /\ \A i \in 1..5 :
              /\ http[r1].sent[1].payload.trending[i].count = 0
              /\ http[r1].sent[1].payload.trending[i].topStory = <<>>
              /\ http[r2].sent[1].payload.trending[i].topStory = <<>>
              /\ calls[http[r2].slots[i]].served = "cache"

\* C15: for every non-empty query and every text, calculateRelevance
\* returns without raising, and its value lies in [0, 1].
C15_TotalOnNonEmpty ==
    (relevance.pc \in {"returned", "raised"} /\ relevance.query # <<>>) =>
        /\ relevance.pc = "returned"
        /\ InUnitRange(relevance.value[1])

\* the part of C15 that the code does keep: a value it returns is in [0, 1]
C15_ReturnedInRange ==
    relevance.pc = "returned" => InUnitRange(relevance.value[1])

\* C16: for the empty query, calculateRelevance returns 0 for every text
\* and raises nothing.
C16_EmptyQueryScoresZero ==
    (relevance.pc \in {"returned", "raised"} /\ relevance.query = <<>>) =>
        /\ relevance.pc = "returned"
        /\ relevance.value[1].num = 0

\* what the code does for the empty query: it returns 1 for every text
C16_EmptyQueryScoresOne ==
    (relevance.pc \in {"returned", "raised"} /\ relevance.query = <<>>) =>
        /\ relevance.pc = "returned"
        /\ relevance.value[1] = Fraction(1, 1)

\* a <= b for two scores
Leq(a, b) == a.num * b.den <= b.num * a.den

\* the distinct tokens of the query
Tokens(query) ==
    {Split(ToLowerCase(query))[i] : i \in 1..Len(Split(ToLowerCase(query)))}

\* the token has no character that means something in a regular expression
Plain(token) == token # <<>> /\ \A i \in 1..Len(token) : token[i] \notin {"+", "."}

RECURSIVE OccurrencesFrom(_, _, _)
\* the occurrences of the non-empty word in the text from pos on, one
\* after the other
OccurrencesFrom(word, text, pos) ==
    IF pos + Len(word) - 1 > Len(text) THEN 0
    ELSE IF SubSeq(text, pos, pos + Len(word) - 1) = word
         THEN 1 + OccurrencesFrom(word, text, pos + Len(word))
         ELSE OccurrencesFrom(word, text, pos + 1)

\* how often the text contains the word, whatever the case of its letters
Occurrences(word, text) == OccurrencesFrom(word, ToLowerCase(text), 1)

\* text2 has more matches of one token of the query than text1 and as
\* many of every other token
MoreOfOneToken(query, text1, text2) ==
    \E w \in Tokens(query) :
        /\ CountMatches(w, ToLowerCase(text2)) > CountMatches(w, ToLowerCase(text1))
        /\ \A v \in Tokens(query) \ {w} :
              CountMatches(v, ToLowerCase(text2)) = CountMatches(v, ToLowerCase(text1))

\* the same for a query of plain words, by the occurrences of the words
MoreOfOneWord(query, text1, text2) ==
    /\ \A v \in Tokens(query) : Plain(v)
    /\ \E w \in Tokens(query) :
          /\ Occurrences(w, text2) > Occurrences(w, text1)
          /\ \A v \in Tokens(query) \ {w} : Occurrences(v, text2) = Occurrences(v, text1)

C18_EverySearchSettles ==
    \A c \in 1..MaxCalls : (calls[c].pc = "awaiting") ~> (calls[c].pc = "done")

\* what the code does give: a call settles when both services answer
C18_SettlesWhenAnswered ==
    \A c \in 1..MaxCalls :
        (calls[c].pc = "awaiting" /\ upstream.news.kind # "hang"
            /\ upstream.arxiv.kind # "hang") ~> (calls[c].pc = "done")

\* parseInt(text, 10) of a text of decimal digits
ParseInt(text) == DigitsValue(<<"+">> \o text, Len(text) + 1)

\* the expiry the environment asks for, in milliseconds: the override
\* when there is one, 30 minutes otherwise
ConfiguredExpiry ==
    IF env.CACHE_EXPIRY_MINUTES = Undefined THEN 30 * 60 * 1000
    ELSE ParseInt(env.CACHE_EXPIRY_MINUTES) * 60 * 1000

\* C21: the expiry comparison of searchWebSources uses the value of
\* CACHE_EXPIRY_MINUTES when the environment sets it, 30 minutes otherwise:
\* a call is served from the cache exactly when the entry under its key is
\* younger than that.
C21_ExpiryFromEnvironment ==
    [][\A c \in Calls :
         Starts(c) =>
             LET key == KeyOf(calls'[c])
             IN  calls'[c].served = "cache" <=>
                    (key \in DOMAIN cache
                       /\ now - cache[key].timestamp < ConfiguredExpiry)]_vars

\* what the code does: the comparison is with 30 minutes whatever the
\* environment holds
C21_ExpiryIgnoresEnvironment ==
    [][\A c \in Calls :
         Starts(c) =>
             LET key == KeyOf(calls'[c])
             IN  calls'[c].served = "cache" <=>
                    (key \in DOMAIN cache
                       /\ now - cache[key].timestamp < 30 * 60 * 1000)]_vars

\* with an override of 15 minutes, a call was served an entry 15 minutes old
C21_OldEntryServed ==
    \E c \in Calls :
        /\ env.CACHE_EXPIRY_MINUTES = <<"1", "5">>
        /\ Returned(c) /\ calls[c].served = "cache"
        /\ calls[c].endedAt - DateParse(calls[c].value[1].timestamp) = 15 * 60 * 1000

\* the keys under which a call has stored a result set so far
StoredKeys ==
    {KeyOf(calls[c]) : c \in {d \in Calls : Returned(d) /\ calls[d].served = "adapters"}}

\* C22: least-recently-used entries are evicted, so that the cache does not
\* hold an entry for every key ever stored: once sets have been stored
\* under more than one key, at least one of those keys has no entry left.
C22_EntriesEvicted ==
    Cardinality(StoredKeys) > 1 => ~(StoredKeys \subseteq DOMAIN cache)

\* what the code does: no step removes an entry, and the cache holds an
\* entry for every key ever stored, expired or not
C22_NothingEvicted ==
    [][/\ \A key \in DOMAIN cache : key \in DOMAIN cache'
       /\ StoredKeys' = DOMAIN cache']_vars

\* C23: a call that misses has issued the request of every adapter when it
\* first awaits: in the step in which it starts, the arXiv request is out
\* and, with a key, so is the news request, neither having been answered
\* (without a key the news adapter sends nothing and has its records at
\* once); and no call ever has its news request open while its arXiv
\* request is still to be sent.
C23_FanOutBeforeAwait ==
    [][\A c \in Calls :
         /\ (Starts(c) /\ calls'[c].served # "cache") =>
               /\ calls'[c].pc = "awaiting"
               /\ calls'[c].arxiv.state = "pending"
               /\ IF env.hasKey
                  THEN /\ calls'[c].news.state = "pending"
                       /\ calls'[c].outbound = {"news", "arxiv"}
                  ELSE /\ calls'[c].news.state = "fulfilled"
                       /\ calls'[c].outbound = {"arxiv"}
         /\ calls'[c].news.state = "pending" => "arxiv" \in calls'[c].outbound
         /\ calls'[c].pc # "idle" => calls'[c].outbound = calls[c].outbound
                                        \/ Starts(c)]_vars

\* both requests of a call were out, and the arXiv response has arrived
\* while the news request is still open
C23_Witness ==
    \E c \in Calls :
        /\ calls[c].pc = "awaiting"
        /\ calls[c].outbound = {"news", "arxiv"}
        /\ calls[c].news.state = "pending"
        /\ calls[c].arxiv.state = "fulfilled"
        /\ calls[c].arxiv.value # <<>>

\* the promise has settled
IsSettled(p) == p.state \in {"fulfilled", "rejected"}

\* C24: a call that misses has no result set while an adapter is pending;
\* in the step in which it fulfils, both adapters have settled, its set
\* holds the records they settled with, and the cache holds that very set
\* under the call's key with the time of the step.
C24_PutBeforeReturn ==
    [][\A c \in Calls :
         /\ calls'[c].pc = "awaiting" =>
               /\ calls'[c].value = <<>>
               /\ calls'[c].outcome = "none"
               /\ ~IsSettled(calls'[c].news) \/ ~IsSettled(calls'[c].arxiv)
         /\ (Completes(c) /\ calls'[c].outcome = "fulfilled") =>
               /\ IsSettled(calls'[c].news) /\ IsSettled(calls'[c].arxiv)
               /\ calls'[c].value[1].results
                     = processedResults(<<calls'[c].news, calls'[c].arxiv>>)
               /\ KeyOf(calls'[c]) \in DOMAIN cache'
               /\ cache'[KeyOf(calls'[c])]
                     = [data |-> calls'[c].value[1], timestamp |-> now]]_vars

\* a call returned a set with the records of both adapters, which is the
\* entry under its key, stored when the call ended
C24_Witness ==
    \E c \in Calls :
        /\ Returned(c) /\ calls[c].served = "adapters"
        /\ calls[c].news.value # <<>> /\ calls[c].arxiv.value # <<>>
        /\ calls[c].value[1].results = calls[c].news.value \o calls[c].arxiv.value
        /\ KeyOf(calls[c]) \in DOMAIN cache
        /\ cache[KeyOf(calls[c])]
              = [data |-> calls[c].value[1], timestamp |-> calls[c].endedAt]

\* the calls that built a result set under the key
Builders(key) ==
    {c \in Calls : Returned(c) /\ calls[c].served = "adapters" /\ KeyOf(calls[c]) = key}

\* the entry under the key holds the set of a call that built one under
\* the key and ended no earlier than every other such call
HoldsLastBuilt(key) ==
    \E c \in Builders(key) :
        /\ cache[key].data = calls[c].value[1]
        /\ \A d \in Builders(key) : calls[d].endedAt <= calls[c].endedAt

\* C25: a call that finds no fresh entry under its key sends its own
\* requests, also while another call under the same key is awaiting its
\* adapters; each call that builds a result set stores it in the step in
\* which it ends, an entry changes in no other step, and so the entry
\* under a key is the set of the call that ended last among those that
\* built one, whichever started first.
C25_LastWriterWins ==
    [][/\ \A c \in Calls :
            /\ (Starts(c) /\ ~FreshEntry(KeyOf(calls'[c]))) =>
                  /\ calls'[c].pc = "awaiting"
                  /\ "arxiv" \in calls'[c].outbound
                  /\ calls'[c].arxiv.state = "pending"
            /\ (Completes(c) /\ calls'[c].outcome = "fulfilled") =>
                  /\ KeyOf(calls'[c]) \in DOMAIN cache'
                  /\ cache'[KeyOf(calls'[c])].data = calls'[c].value[1]
       /\ \A key \in DOMAIN cache' :
            /\ (key \notin DOMAIN cache \/ cache'[key] # cache[key]) =>
                  \E c \in Calls :
                      /\ Completes(c) /\ calls'[c].outcome = "fulfilled"
                      /\ KeyOf(calls'[c]) = key
                      /\ cache'[key].data = calls'[c].value[1]
            /\ HoldsLastBuilt(key)']_vars

\* two calls with the same arguments both missed; the one that started
\* second ended first, and the cache holds the set of the one that started
\* first and ended last, which is another set
C25_Witness ==
    \E c1, c2 \in Calls :
        /\ c1 < c2
        /\ calls[c1].query = calls[c2].query
        /\ calls[c1].timeFrame = calls[c2].timeFrame
        /\ Returned(c1) /\ calls[c1].served = "adapters"
        /\ Returned(c2) /\ calls[c2].served = "adapters"
        /\ calls[c2].endedAt < calls[c1].endedAt
        /\ calls[c1].outbound = {"news", "arxiv"}
        /\ calls[c2].outbound = {"news", "arxiv"}
        /\ cache[KeyOf(calls[c1])].data = calls[c1].value[1]
        /\ calls[c1].value # calls[c2].value

IsWord(token) == token # <<>>

\* the tokens of the query split on whitespace: lower case, none empty
Words(query) == SelectSeq(Split(ToLowerCase(query)), IsWord)

RECURSIVE SumOccurrences(_, _, _)
SumOccurrences(words, text, i) ==
    IF i > Len(words) THEN 0
    ELSE Occurrences(words[i], text) + SumOccurrences(words, text, i + 1)

\* the score of literal matching: the occurrences of the words as
\* substrings of the text over the number of words, at most 1
LiteralScore(text, query) ==
    IF SumOccurrences(Words(query), text, 1) >= Len(Words(query))
    THEN Fraction(1, 1)
    ELSE Fraction(SumOccurrences(Words(query), text, 1), Len(Words(query)))

SameScore(a, b) == a.num * b.den = b.num * a.den

\* C26: calculateRelevance never raises, whatever characters the query
\* holds, and for a query that has a word its value is the score of
\* literal, case-insensitive substring matching of the words between the
\* blanks, none of which is empty.
C26_LiteralTokens ==
    relevance.pc \in {"returned", "raised"} =>
        /\ relevance.pc = "returned"
        /\ Words(relevance.query) # <<>> =>
              SameScore(relevance.value[1],
                        LiteralScore(relevance.text, relevance.query))

\* what the code does give: the literal score for a query of plain words
\* with single blanks between them
C26_PlainWordsLiteral ==
    (relevance.pc \in {"returned", "raised"}
        /\ \A w \in Tokens(relevance.query) : Plain(w)) =>
        /\ relevance.pc = "returned"
        /\ SameScore(relevance.value[1],
                     LiteralScore(relevance.text, relevance.query))

\* the three ways the code leaves literal matching: '.' matches any
\* character, a run of blanks gives an empty token that matches
\* everywhere, '+' alone is no regular expression
C26_DotMatchesAny ==
    /\ relevance.pc = "returned" /\ relevance.query = <<".">>
    /\ relevance.text = <<"a">> /\ relevance.value[1] = Fraction(1, 1)

C26_EmptyTokenMatches ==
    /\ relevance.pc = "returned" /\ relevance.query = <<"B", " ", " ">>
    /\ relevance.text = <<>> /\ relevance.value[1] = Fraction(2, 3)

C26_PlusRaises ==
    relevance.pc = "raised" /\ relevance.query = <<"a", " ", "+">>

\* the entry is as the call that built its set stored it
AsStored(entry) ==
    /\ DateParse(entry.data.timestamp) = entry.timestamp
    /\ \E d \in Calls :
          /\ Returned(d) /\ calls[d].served = "adapters"
          /\ calls[d].value = <<entry.data>>
          /\ calls[d].endedAt = entry.timestamp

\* C27: an entry of the cache stays as it was stored until a call that
\* missed under its key stores a new set: a hit, the analysis and the
\* response of a request leave it alone, every hit returns the content
\* that was stored, and so does the response that carries it.
C27_StoredSetUnchanged ==
    [][/\ \A key \in DOMAIN cache :
            /\ key \in DOMAIN cache'
            /\ cache'[key] # cache[key] =>
                  \E c \in Calls :
                      /\ Completes(c) /\ calls'[c].outcome = "fulfilled"
                      /\ KeyOf(calls'[c]) = key
                      /\ cache'[key] = [data |-> calls'[c].value[1], timestamp |-> now]
       /\ \A c \in Calls :
            (Starts(c) /\ calls'[c].served = "cache") =>
                /\ cache' = cache
                /\ AsStored(cache[KeyOf(calls'[c])])
                /\ calls'[c].value = <<cache[KeyOf(calls'[c])].data>>
       /\ \A r \in DOMAIN http :
            (Handled(r) /\ http'[r].pc = "responded") =>
                /\ cache' = cache
                /\ (http'[r].route = "analyze" /\ http'[r].sent[1].status = 200) =>
                      /\ calls'[http'[r].slots[1]].served = "cache"
                      /\ http'[r].sent[1].payload.searchResults
                            = cache[KeyOf(calls'[http'[r].slots[1]])].data]_vars

\* a request was answered with the analysis of a set its search built, and
\* a later request was answered from the cache with the same set, which is
\* still the entry
C27_Witness ==
    \E r1, r2 \in DOMAIN http :
        /\ http[r1].pc = "responded" /\ http[r1].sent[1].status = 200
        /\ http[r2].pc = "responded" /\ http[r2].sent[1].status = 200
        /\ CallOf(r1).served = "adapters" /\ CallOf(r2).served = "cache"
        /\ http[r1].sent[1].payload.analysis.sources_analyzed > 0
        /\ DateParse(http[r2].sent[1].payload.timestamp)
              > DateParse(http[r1].sent[1].payload.timestamp)
        /\ http[r2].sent[1].payload.searchResults = http[r1].sent[1].payload.searchResults
        /\ cache[KeyOf(CallOf(r2))].data = http[r1].sent[1].payload.searchResults
        /\ cache[KeyOf(CallOf(r2))].timestamp
              = DateParse(http[r1].sent[1].payload.timestamp)

\* C28: the step in which a call rejects leaves the cache as it is, and
\* the call has no result set: an entry it found expired under its key is
\* still stored and was not returned to it.
C28_RejectionLeavesCache ==
    [][\A c \in Calls :
         /\ (Completes(c) /\ calls'[c].outcome = "rejected") =>
               /\ cache' = cache
               /\ calls'[c].stale # <<>> => KeyOf(calls'[c]) \in DOMAIN cache'
         /\ calls'[c].outcome = "rejected" =>
               /\ calls'[c].pc = "done"
               /\ calls'[c].value = <<>>
               /\ calls'[c].served = "none"]_vars

\* a call found the entry under its key expired and then rejected; the
\* expired entry is still the entry under the key
C28_Witness ==
    \E c \in Calls :
        /\ calls[c].outcome = "rejected"
        /\ calls[c].stale # <<>>
        /\ calls[c].value = <<>>
        /\ KeyOf(calls[c]) \in DOMAIN cache
        /\ cache[KeyOf(calls[c])].data.timestamp = calls[c].stale[1]
        /\ calls[c].endedAt - cache[KeyOf(calls[c])].timestamp >= cacheExpiry

\* the record is what searchNewsAPI makes of an article of the response
\* the news API gives
FromLiveResponse(record, query) ==
    /\ env.hasKey
    /\ upstream.news.kind = "ok"
    /\ \E i \in 1..Len(upstream.news.articles) :
          /\ ~ArticleThrows(upstream.news.articles[i], query)
          /\ record = ArticleRecord(upstream.news.articles[i], query)

\* the results start with the fallback records of the news adapter
HasFallback(data) ==
    /\ Len(data.results) >= 6
    /\ IsFallback(SubSeq(data.results, 1, 6), data.searchQuery)

C29_Live ==
    \E c \in Calls :
        /\ Returned(c)
        /\ calls[c].value[1].dataSource.status = "LIVE_DATA"
        /\ calls[c].value[1].dataSource.sources.mock = 0

\* the set was built while an adapter was failing: it has fallback records
\* of the news adapter or no academic record
Degraded(data) ==
    data.dataSource.sources.mock > 0 \/ data.dataSource.sources.academic = 0

\* both services answer with records
Healthy ==
    /\ upstream.news.kind = "ok" /\ upstream.news.articles # <<>>
    /\ upstream.arxiv.kind = "ok" /\ upstream.arxiv.entries # <<>>

\* C30: a degraded set is stored like any other, and a call that starts
\* while the entry under its key holds a degraded set younger than the TTL
\* returns that set and sends no request, whatever the services would
\* answer by then.
C30_DegradedSetServed ==
    [][\A c \in Calls :
         /\ (Completes(c) /\ calls'[c].outcome = "fulfilled"
                /\ Degraded(calls'[c].value[1])) =>
               /\ KeyOf(calls'[c]) \in DOMAIN cache'
               /\ cache'[KeyOf(calls'[c])]
                     = [data |-> calls'[c].value[1], timestamp |-> now]
         /\ (Starts(c) /\ FreshEntry(KeyOf(calls'[c]))
                /\ Degraded(cache[KeyOf(calls'[c])].data)) =>
               /\ calls'[c].pc = "done"
               /\ calls'[c].outcome = "fulfilled"
               /\ calls'[c].served = "cache"
               /\ calls'[c].value = <<cache[KeyOf(calls'[c])].data>>
               /\ NoAdapter(calls'[c])
               /\ cache' = cache]_vars

\* a set of fallback records alone was built while both services were
\* down; the services came up, and a call made after that, within the TTL,
\* was served that set from the cache and sent nothing
C30_Witness ==
    \E c1, c2 \in Calls :
        /\ Returned(c1) /\ calls[c1].served = "adapters"
        /\ calls[c1].outbound = {"news", "arxiv"}
        /\ calls[c1].query = <<"a">>
        /\ calls[c1].value[1].dataSource.sources.mock = 6
        /\ calls[c1].value[1].dataSource.sources.academic = 0
        /\ Healthy
        /\ calls[c1].endedAt <= upstream.since
        /\ Returned(c2) /\ calls[c2].served = "cache"
        /\ calls[c2].endedAt > upstream.since
        /\ calls[c2].endedAt - calls[c1].endedAt < cacheExpiry
        /\ calls[c2].query = calls[c1].query
        /\ calls[c2].timeFrame = calls[c1].timeFrame
        /\ calls[c2].value = calls[c1].value
        /\ NoAdapter(calls[c2])

====
